---- MODULE Spec2Model ----
(***************************************************************************)
(* State-machine model of the useVoiceLive hook (the comprehensive        *)
(* implementation): the control-channel WebSocket, the session handshake, *)
(* the avatar WebRTC negotiation, the pre-ready event queue and the       *)
(* playback scheduler.                                                     *)
(*                                                                         *)
(* One step of the model is one browser task: a call of the hook's API by *)
(* the caller, one socket / peer-connection notification with the         *)
(* microtasks it triggers, the continuation of an async handler after an  *)
(* await, or one React render with its effects.                           *)
(*                                                                         *)
(* React state (useState) is modelled by the value last passed to its     *)
(* setter.  The callbacks made by useCallback close over the state of the *)
(* render that created them: rIsReady / rVideoStream are the values seen  *)
(* by the callbacks of the latest render, and every socket remembers the  *)
(* values seen by the handleMessage that connect() installed on it.       *)
(***************************************************************************)
EXTENDS Integers, Sequences, FiniteSets, TLC

\* ---------------------------------------------------------------- bounds
MaxSockets == 2   \* WebSockets created by connect() in one run
MaxPcs     == 2   \* RTCPeerConnections created in one run
MaxFrames  == 2   \* input_audio_buffer.append events submitted by the caller
MaxSent    == 3   \* frames written to one socket
MaxQueue   == 2   \* buffers held by the playback queue
MaxTime    == 2   \* ticks of the audio clock
MaxResp    == 2   \* distinct response ids the service uses
MaxDur     == 1   \* longest chunk, in clock ticks
MaxCalls   == 2   \* startCapture() invocations

SocketIds == 1..MaxSockets
PcIds     == 1..MaxPcs
RespIds   == 1..MaxResp
CallIds   == 1..MaxCalls   \* invocation c acquires stream c and creates context c

\* ------------------------------------------------------------- variables
VARIABLES
  connectionState,            \* useState: 'disconnected' | 'connecting' | 'connected' | 'error'
  isReady,                    \* useState
  error,                      \* useState: "null" or the message
  videoStream,                \* useState: 0 = null, 1 = a MediaStream
  audioStream,                \* useState: "null" | "dest" | "pc"
  rIsReady,                   \* isReady as closed over by the sendEvent of the latest render
  rVideoStream,               \* videoStream as closed over by the handleMessage of the latest render
  wsRef,                      \* 0 = null, else a socket id
  pcRef,                      \* 0 = null, else a peer connection id
  audioContextRef,            \* "null" | "open"
  audioStreamDestinationRef,  \* "null" | "live" | "stale" (node of a closed context)
  audioQueueRef,              \* sequence of scheduled sources
  nextPlayTimeRef,            \* the playback cursor
  currentResponseIdRef,       \* 0 = null
  responseStartTimeRef,       \* -1 = null
  isFirstChunkRef,
  eventQueueRef,              \* the pre-ready queue
  ws,                         \* the sockets created so far
  pc,                         \* the peer connections created so far
  now,                        \* audioContext.currentTime of the current context
  nextFrame,                  \* number of the next append event of the caller
  preReady,                   \* history: append events submitted in the handshake window
  unhandled,                  \* history: an async message handler rejected
  suspended,                  \* history: peer connections whose handler was at an await when disconnect() ran
  interrupted,                \* history: the response cut by the last barge-in, 0 = none
  finished,                   \* history: the response whose response.audio.done arrived, 0 = none
  connectSettled,             \* history: how the promise of the last connect() settled, "none" before any
  turnStart,                  \* history: start of the first chunk scheduled since the last response.created, -1 = none
  unobserved,                 \* history: inbound frames handled without a call of onEvent
  ignored,                    \* history: inbound frames of a type the switch of handleMessage has no case for
  autoStartMic,               \* config: autoStartMic
  effIsReady,                 \* isReady at the last run of the auto-start effect
  effIsMicActive,             \* isMicActive at the last run of the auto-start effect
  stoppedOn,                  \* history: the socket of the ready session in which the caller last called stopMic()
                              \* with no render pending, 0 = none
  replaced,                   \* history: a live socket or peer connection was replaced without being closed
  avatarConfigured,           \* config: session.avatar is set
  autoConnect,                \* config: autoConnect
  userConfig,                 \* config: the `session` configuration, Undefined when not given
  isAgentMode,                \* config: Agent Service mode
  merged,                     \* the merged config inside the last buildSessionConfig call
  built,                      \* the wire descriptor the last builder call returned
  builder,                    \* which call made it: "none" | "session" | "agent" | "created" | "update"
  partialSession,             \* the argument of the last updateSession call
  validated,                  \* how the last validateConfig call ended: "none" | "returns" | "throws"
  streamRef,                  \* useAudioCapture: 0 = null, else the MediaStream
  micAudioContextRef,         \* useAudioCapture audioContextRef: 0 = null
  audioWorkletNodeRef,        \* useAudioCapture: 0 = null
  sourceRef,                  \* useAudioCapture: 0 = null
  isCapturing,                \* useAudioCapture state
  captureError,               \* useAudioCapture state `error`
  tracks,                     \* the tracks of each MediaStream: "none" | "live" | "ended"
  micContexts,                \* each capture AudioContext: "none" | "running" | "suspending" |
                              \* "suspended" | "resuming" | "closed"
  calls,                      \* each startCapture() invocation: where it stands
  hooked,                     \* the worklet nodes whose port.onmessage is set
  posted,                     \* history: the frames the worklet nodes posted
  delivered,                  \* history: the frames passed to onAudioData
  orphaned                    \* history: the invocations that were awaiting when stopCapture() ran

builderVars == << userConfig, isAgentMode, merged, built, builder, validated,
                  partialSession >>
configVars == << avatarConfigured, autoConnect, builderVars >>
observerVars == << unobserved, ignored >>
effectVars == << autoStartMic, effIsReady, effIsMicActive, stoppedOn >>

vars == << connectionState, isReady, error, videoStream, audioStream, rIsReady,
           rVideoStream, wsRef, pcRef, audioContextRef, audioStreamDestinationRef,
           audioQueueRef, nextPlayTimeRef, currentResponseIdRef,
           responseStartTimeRef, isFirstChunkRef, eventQueueRef, ws, pc, now,
           nextFrame, preReady, unhandled, suspended, interrupted, finished,
           replaced, connectSettled, turnStart, configVars, observerVars, effectVars, streamRef,
           micAudioContextRef, audioWorkletNodeRef, sourceRef, isCapturing,
           captureError, tracks, micContexts, calls, orphaned, hooked, posted,
           delivered >>

workletVars  == << hooked, posted, delivered >>
micVars      == << streamRef, micAudioContextRef, audioWorkletNodeRef, sourceRef,
                   isCapturing, captureError, tracks, micContexts, calls,
                   orphaned, workletVars >>
reactVars    == << connectionState, isReady, error, videoStream, audioStream >>
closureVars  == << rIsReady, rVideoStream >>
playbackVars == << audioContextRef, audioStreamDestinationRef, audioQueueRef,
                   nextPlayTimeRef, currentResponseIdRef, responseStartTimeRef,
                   isFirstChunkRef, now >>
historyVars  == << nextFrame, preReady, unhandled, suspended, interrupted, finished,
                   replaced, connectSettled, turnStart, configVars, observerVars, effectVars >>

\* ---------------------------------------------------------------- events
AppendEvent(n)  == [type |-> "input_audio_buffer.append", n |-> n]
SessionUpdate   == [type |-> "session.update", n |-> 0]
AvatarConnect(p) == [type |-> "session.avatar.connect", n |-> p]

\* a socket: hVideo is the videoStream its handleMessage closed over, sent what
\* was written to it; created and answered record what the service sent on it
NoSocket == [readyState |-> "NONE", hVideo |-> 0, created |-> FALSE,
             answered |-> 0, sent |-> << >>]
\* a peer connection: nego is the await its 'session.updated' handler is at,
\* remote the state of setRemoteDescription, sock the socket of that handler
NoPc     == [state |-> "none", nego |-> "none", remote |-> "none", sock |-> 0]

\* WebSocket.OPEN check of sendEvent and of the flush loops
IsOpen(socks, ref) == ref # 0 /\ socks[ref].readyState = "OPEN"

\* sendEvent: the queue rule (the closure's isReady decides)
ShouldQueue(event, ready) == event.type = "input_audio_buffer.append" /\ ~ready

\* sendEvent(event) run with a closure whose isReady is `ready`:
\* the queue and the sockets afterwards
SendEvent(event, ready, q, socks, ref) ==
  IF ShouldQueue(event, ready)
    THEN [q |-> Append(q, event), ws |-> socks]
    ELSE IF IsOpen(socks, ref)
      THEN [q |-> q, ws |-> [socks EXCEPT ![ref].sent = Append(@, event)]]
      ELSE [q |-> q, ws |-> socks]

\* the flush loop of 'session.updated' / 'session.avatar.connecting'
Flush(q, socks, ref) ==
  IF Len(q) > 0
    THEN [q |-> << >>,
          ws |-> IF IsOpen(socks, ref)
                   THEN [socks EXCEPT ![ref].sent = @ \o q] ELSE socks]
    ELSE [q |-> q, ws |-> socks]

\* room left in the log of the socket a send would write to
Room(socks, ref, k) == IF ref = 0 THEN TRUE ELSE Len(socks[ref].sent) + k <= MaxSent

\* ------------------------------------------------- session descriptor
\* JavaScript values: a type tag and a payload.  Numbers are written as their
\* decimal text, so that the number 1.2 and the string '1.2' differ by their
\* tag only.  An object is a record that lists every key of its shape; a key
\* holding Undefined is an absent property (JSON.stringify drops it).
Undefined == << "undefined" >>
Null      == << "null" >>
Num(n)    == << "number", n >>
Str(s)    == << "string", s >>
Bool(b)   == << "boolean", b >>
Arr(a)    == << "array", a >>
Obj(o)    == << "object", o >>
NotBuilt  == << "none" >>

\* typeof v === 'object' && !Array.isArray(v) && v !== null
IsObject(v) == v[1] = "object"
\* `if (v)`
Truthy(v) ==
  /\ v # Undefined
  /\ v # Null
  /\ v # Str("")
  /\ v # Num("0")
  /\ v # Bool(FALSE)
\* v.k (for a v that is neither null nor undefined)
Get(v, k) == IF IsObject(v) /\ k \in DOMAIN v[2] THEN v[2][k] ELSE Undefined
\* `if (v) out = v`  /  `if (v !== undefined) out = v`
IfTruthy(v) == IF Truthy(v) THEN v ELSE Undefined

ConfigKeys ==
  { "instructions", "modalities", "temperature", "maxResponseOutputTokens",
    "inputAudioFormat", "outputAudioFormat", "inputAudioSamplingRate",
    "inputAudioEchoCancellation", "inputAudioNoiseReduction",
    "inputAudioTranscription", "voice", "turnDetection", "tools", "toolChoice",
    "outputAudioTimestampTypes", "animation", "avatar" }
TurnDetectionKeys ==
  { "type", "threshold", "prefixPaddingMs", "speechDurationMs",
    "silenceDurationMs", "removeFillerWords", "interruptResponse",
    "createResponse", "eagerness", "languages", "autoTruncate",
    "endOfUtteranceDetection" }
VoiceKeys  == { "name", "type", "temperature", "rate" }
AvatarKeys == { "character", "style", "customized", "iceServers", "video" }

\* a config, a turn detection, a voice, an avatar with no property set
NoConfig        == [k \in ConfigKeys |-> Undefined]
NoTurnDetection == [k \in TurnDetectionKeys |-> Undefined]
NoVoice         == [k \in VoiceKeys |-> Undefined]
NoAvatar        == [k \in AvatarKeys |-> Undefined]

\* the turn detection of DEFAULT_SESSION_CONFIG and of the agent base config
DefaultTurnDetection ==
  [NoTurnDetection EXCEPT !.type = Str("azure_semantic_vad"),
                          !.threshold = Num("0.5"),
                          !.prefixPaddingMs = Num("300"),
                          !.speechDurationMs = Num("80"),
                          !.silenceDurationMs = Num("500"),
                          !.removeFillerWords = Bool(FALSE),
                          !.interruptResponse = Bool(TRUE),
                          !.createResponse = Bool(TRUE)]

DEFAULT_SESSION_CONFIG ==
  [NoConfig EXCEPT
     !.modalities = Arr(<< "text", "audio" >>),
     !.temperature = Num("0.8"),
     !.maxResponseOutputTokens = Str("inf"),
     !.inputAudioFormat = Str("pcm16"),
     !.outputAudioFormat = Str("pcm16"),
     !.inputAudioSamplingRate = Num("24000"),
     !.inputAudioEchoCancellation = Obj([type |-> Str("server_echo_cancellation")]),
     !.inputAudioNoiseReduction = Obj([type |-> Str("azure_deep_noise_suppression")]),
     !.turnDetection = Obj(DefaultTurnDetection),
     !.tools = Arr(<< >>),
     !.toolChoice = Str("auto")]

\* convertVoiceConfig(voice)
convertVoiceConfig(voice) ==
  IF voice[1] = "string"
    THEN Obj([NoVoice EXCEPT !.name = voice])
    ELSE Obj([name        |-> Get(voice, "name"),
              type        |-> IfTruthy(Get(voice, "type")),
              temperature |-> Get(voice, "temperature"),
              rate        |-> IfTruthy(Get(voice, "rate"))])

\* convertTurnDetection(config)
convertTurnDetection(config) ==
  Obj([type                |-> IfTruthy(Get(config, "type")),
       threshold           |-> Get(config, "threshold"),
       prefix_padding_ms   |-> Get(config, "prefixPaddingMs"),
       speech_duration_ms  |-> Get(config, "speechDurationMs"),
       silence_duration_ms |-> Get(config, "silenceDurationMs"),
       create_response     |-> Get(config, "createResponse"),
       interrupt_response  |-> Get(config, "interruptResponse"),
       eagerness           |-> IfTruthy(Get(config, "eagerness")),
       remove_filler_words |-> Get(config, "removeFillerWords"),
       languages           |-> IfTruthy(Get(config, "languages")),
       auto_truncate       |-> Get(config, "autoTruncate"),
       end_of_utterance_detection |->
         LET eou == Get(config, "endOfUtteranceDetection")
         IN IF Truthy(eou)
              THEN Obj([model           |-> Get(eou, "model"),
                        threshold_level |-> Get(eou, "thresholdLevel"),
                        timeout_ms      |-> Get(eou, "timeoutMs")])
              ELSE Undefined])

\* the blocks of convertToSessionUpdate for the three features that null
\* switches off: absent when undefined, null when null, else the listed keys
TypeOnly(v) ==
  IF v = Undefined THEN Undefined
  ELSE IF v = Null THEN Null
  ELSE Obj([type |-> Get(v, "type")])
Transcription(v) ==
  IF v = Undefined THEN Undefined
  ELSE IF v = Null THEN Null
  ELSE Obj([model    |-> Get(v, "model"),
            language |-> Get(v, "language"),
            prompt   |-> Get(v, "prompt")])

\* the avatar block of convertToSessionUpdate
convertAvatar(avatar) ==
  LET video == Get(avatar, "video")
      crop  == Get(video, "crop")
      background == Get(video, "background")
  IN Obj([character   |-> Get(avatar, "character"),
          style       |-> Get(avatar, "style"),
          customized  |-> Get(avatar, "customized"),
          ice_servers |-> IfTruthy(Get(avatar, "iceServers")),
          video       |->
            IF Truthy(video)
              THEN Obj([codec      |-> Get(video, "codec"),
                        bitrate    |-> Get(video, "bitrate"),
                        resolution |-> Get(video, "resolution"),
                        crop       |->
                          IF Truthy(crop)
                            THEN Obj([top_left     |-> Get(crop, "topLeft"),
                                      bottom_right |-> Get(crop, "bottomRight")])
                            ELSE Undefined,
                        background |->
                          IF Truthy(background)
                            THEN Obj([color     |-> Get(background, "color"),
                                      image_url |-> Get(background, "imageUrl")])
                            ELSE Undefined])
              ELSE Undefined])

\* convertToSessionUpdate(config): the wire descriptor
convertToSessionUpdate(config) ==
  Obj([instructions                  |-> config.instructions,
       modalities                    |-> IfTruthy(config.modalities),
       temperature                   |-> config.temperature,
       max_response_output_tokens    |-> config.maxResponseOutputTokens,
       input_audio_format            |-> IfTruthy(config.inputAudioFormat),
       output_audio_format           |-> IfTruthy(config.outputAudioFormat),
       input_audio_sampling_rate     |-> IfTruthy(config.inputAudioSamplingRate),
       input_audio_echo_cancellation |-> TypeOnly(config.inputAudioEchoCancellation),
       input_audio_noise_reduction   |-> TypeOnly(config.inputAudioNoiseReduction),
       input_audio_transcription     |-> Transcription(config.inputAudioTranscription),
       voice                         |-> IF Truthy(config.voice)
                                           THEN convertVoiceConfig(config.voice)
                                           ELSE Undefined,
       turn_detection                |-> IF config.turnDetection = Undefined THEN Undefined
                                         ELSE IF config.turnDetection = Null THEN Null
                                         ELSE convertTurnDetection(config.turnDetection),
       tools                         |-> IfTruthy(config.tools),
       tool_choice                   |-> IfTruthy(config.toolChoice),
       output_audio_timestamp_types  |-> IfTruthy(config.outputAudioTimestampTypes),
       animation                     |-> IF Truthy(config.animation)
                                           THEN Obj([outputs |-> Get(config.animation, "outputs")])
                                           ELSE Undefined,
       avatar                        |-> IF Truthy(config.avatar)
                                           THEN convertAvatar(config.avatar)
                                           ELSE Undefined])

\* deepMerge(target, source) on the property records of two objects
RECURSIVE deepMerge(_, _)
deepMerge(target, source) ==
  [key \in DOMAIN target \cup DOMAIN source |->
     LET targetValue == IF key \in DOMAIN target THEN target[key] ELSE Undefined
         sourceValue == IF key \in DOMAIN source THEN source[key] ELSE Undefined
     IN IF sourceValue = Null THEN Null
        ELSE IF sourceValue = Undefined THEN targetValue
        ELSE IF IsObject(sourceValue) /\ IsObject(targetValue)
               THEN Obj(deepMerge(targetValue[2], sourceValue[2]))
        ELSE sourceValue]

\* a merge by object spread, { ...DEFAULT_SESSION_CONFIG, ...userConfig }
MergedBySpread(config) ==
  IF config = Undefined THEN DEFAULT_SESSION_CONFIG
  ELSE [k \in ConfigKeys |->
          IF config[2][k] # Undefined THEN config[2][k] ELSE DEFAULT_SESSION_CONFIG[k]]
\* the `merged` of buildSessionConfig; without a user config nothing is merged
MergedConfig(config) ==
  IF config = Undefined THEN DEFAULT_SESSION_CONFIG
  ELSE deepMerge(DEFAULT_SESSION_CONFIG, config[2])

\* buildSessionConfig(userConfig)
buildSessionConfig(config) == convertToSessionUpdate(MergedConfig(config))

\* `if (userConfig.k) agentConfig.k = userConfig.k`
OverrideIfTruthy(base, v) == IF Truthy(v) THEN v ELSE base
\* `if (userConfig.k !== undefined) agentConfig.k = userConfig.k`
OverrideIfDefined(base, v) == IF v # Undefined THEN v ELSE base

\* an agent builder that starts from the full defaults and the whole user config
agentConfigFromDefaults(config) == MergedConfig(config)
\* the agentConfig of buildAgentSessionConfig after the user's overrides
agentConfig(config) ==
  LET base == [NoConfig EXCEPT
                 !.modalities = Arr(<< "text", "audio" >>),
                 !.inputAudioFormat = Str("pcm16"),
                 !.outputAudioFormat = Str("pcm16"),
                 !.inputAudioSamplingRate = Num("24000"),
                 !.inputAudioEchoCancellation = Obj([type |-> Str("server_echo_cancellation")]),
                 !.inputAudioNoiseReduction = Obj([type |-> Str("azure_deep_noise_suppression")]),
                 !.turnDetection = Obj(DefaultTurnDetection)]
  IN IF ~Truthy(config) THEN base
     ELSE [base EXCEPT
             !.modalities = OverrideIfTruthy(@, Get(config, "modalities")),
             !.inputAudioFormat = OverrideIfTruthy(@, Get(config, "inputAudioFormat")),
             !.outputAudioFormat = OverrideIfTruthy(@, Get(config, "outputAudioFormat")),
             !.inputAudioSamplingRate =
                OverrideIfTruthy(@, Get(config, "inputAudioSamplingRate")),
             !.inputAudioEchoCancellation =
                OverrideIfDefined(@, Get(config, "inputAudioEchoCancellation")),
             !.inputAudioNoiseReduction =
                OverrideIfDefined(@, Get(config, "inputAudioNoiseReduction")),
             !.turnDetection = OverrideIfDefined(@, Get(config, "turnDetection")),
             !.inputAudioTranscription =
                OverrideIfDefined(@, Get(config, "inputAudioTranscription"))]

\* buildAgentSessionConfig(userConfig)
buildAgentSessionConfig(config) == convertToSessionUpdate(agentConfig(config))

\* a validation that rejects instructions in either mode
validateConfigAnyMode(config, agentMode) ==
  IF Truthy(Get(config, "instructions")) THEN "throws" ELSE "returns"
\* validateConfig(config, isAgentMode): "throws" or "returns"
validateConfig(config, agentMode) ==
  IF agentMode /\ Truthy(Get(config, "instructions")) THEN "throws" ELSE "returns"

\* the builders' state before any call
BuilderIdle ==
  /\ merged = NotBuilt
  /\ built = NotBuilt
  /\ builder = "none"
  /\ validated = "none"
  /\ partialSession = Undefined

\* ------------------------------------------------- microphone capture
\* everything but the capture hook's state
voiceVars == << reactVars, closureVars, wsRef, pcRef, playbackVars, eventQueueRef,
               ws, pc, historyVars >>

\* useAudioCapture after its first render
CaptureInit ==
  /\ streamRef = 0
  /\ micAudioContextRef = 0
  /\ audioWorkletNodeRef = 0
  /\ sourceRef = 0
  /\ isCapturing = FALSE
  /\ captureError = "null"
  /\ tracks = [c \in CallIds |-> "none"]
  /\ micContexts = [c \in CallIds |-> "none"]
  /\ calls = [c \in CallIds |-> "none"]
  /\ orphaned = {}
  /\ hooked = {}
  /\ posted = 0
  /\ delivered = 0

\* startCapture() up to `await getUserMedia(...)`
BeginCapture ==
  /\ \E c \in CallIds :
       /\ calls[c] = "none"
       /\ \A d \in CallIds : d < c => calls[d] # "none"
       /\ calls' = [calls EXCEPT ![c] = "getUserMedia"]
  /\ captureError' = "null"

\* startCapture() called by the caller
StartCapture ==
  /\ BeginCapture
  /\ UNCHANGED << streamRef, micAudioContextRef, audioWorkletNodeRef, sourceRef,
                  isCapturing, tracks, micContexts, orphaned, workletVars,
                  voiceVars >>

\* the catch block of startCapture: the message is stored, the error thrown
\* again, so the promise of invocation c rejects
CaptureFailed(c) ==
  /\ calls' = [calls EXCEPT ![c] = "rejected"]
  /\ captureError' = "message"

\* getUserMedia rejects (permission denied, no device)
GetUserMediaRejected(c) ==
  /\ calls[c] = "getUserMedia"
  /\ CaptureFailed(c)
  /\ UNCHANGED << streamRef, micAudioContextRef, audioWorkletNodeRef, sourceRef,
                  isCapturing, tracks, micContexts, orphaned, workletVars,
                  voiceVars >>

\* getUserMedia resolves with a stream; new AudioContext either succeeds
\* (constructed) and addModule is awaited, or throws
GetUserMediaResolved(c, constructed) ==
  /\ calls[c] = "getUserMedia"
  /\ tracks' = [tracks EXCEPT ![c] = "live"]
  /\ streamRef' = c
  /\ IF constructed
       THEN /\ micContexts' = [micContexts EXCEPT ![c] = "running"]
            /\ micAudioContextRef' = c
            /\ calls' = [calls EXCEPT ![c] = "addModule"]
            /\ UNCHANGED captureError
       ELSE /\ CaptureFailed(c)
            /\ UNCHANGED << micContexts, micAudioContextRef >>
  /\ UNCHANGED << audioWorkletNodeRef, sourceRef, isCapturing, orphaned, workletVars,
                  voiceVars >>

\* audioWorklet.addModule rejects (the worklet script cannot be loaded)
AddModuleRejected(c) ==
  /\ calls[c] = "addModule"
  /\ CaptureFailed(c)
  /\ UNCHANGED << streamRef, micAudioContextRef, audioWorkletNodeRef, sourceRef,
                  isCapturing, tracks, micContexts, orphaned, workletVars,
                  voiceVars >>

\* addModule resolves; the source and the worklet node are either created
\* and connected, or new AudioWorkletNode throws
AddModuleResolved(c, created) ==
  /\ calls[c] = "addModule"
  /\ IF created
       THEN /\ sourceRef' = c
            /\ audioWorkletNodeRef' = c
            /\ isCapturing' = TRUE
            /\ calls' = [calls EXCEPT ![c] = "resolved"]
            /\ UNCHANGED captureError
       ELSE /\ CaptureFailed(c)
            /\ UNCHANGED << sourceRef, audioWorkletNodeRef, isCapturing >>
  /\ UNCHANGED << streamRef, micAudioContextRef, tracks, micContexts, orphaned, workletVars,
                  voiceVars >>

\* stopCapture(): nodes disconnected, the context closed, the tracks stopped
StopCapture ==
  /\ sourceRef' = 0
  /\ audioWorkletNodeRef' = 0
  /\ micContexts' = IF micAudioContextRef # 0
                      THEN [micContexts EXCEPT ![micAudioContextRef] = "closed"]
                      ELSE micContexts
  /\ micAudioContextRef' = 0
  /\ tracks' = IF streamRef # 0 THEN [tracks EXCEPT ![streamRef] = "ended"]
                ELSE tracks
  /\ streamRef' = 0
  /\ isCapturing' = FALSE
  /\ orphaned' = orphaned \cup {c \in CallIds : calls[c] \in {"getUserMedia", "addModule"}}
  /\ hooked' = hooked \ {audioWorkletNodeRef}
  /\ UNCHANGED << captureError, calls, posted, delivered >>

\* pauseCapture(): suspend() on a running context; the context reports
\* 'running' until the suspension has taken effect
PauseCapture ==
  /\ micAudioContextRef # 0
  /\ micContexts[micAudioContextRef] = "running"
  /\ micContexts' = [micContexts EXCEPT ![micAudioContextRef] = "suspending"]
  /\ UNCHANGED << streamRef, micAudioContextRef, audioWorkletNodeRef, sourceRef,
                  isCapturing, captureError, tracks, calls, orphaned, workletVars,
                  voiceVars >>

\* resumeCapture(): resume() on a suspended context
ResumeCapture ==
  /\ micAudioContextRef # 0
  /\ micContexts[micAudioContextRef] = "suspended"
  /\ micContexts' = [micContexts EXCEPT ![micAudioContextRef] = "resuming"]
  /\ UNCHANGED << streamRef, micAudioContextRef, audioWorkletNodeRef, sourceRef,
                  isCapturing, captureError, tracks, calls, orphaned, workletVars,
                  voiceVars >>

\* the promise of suspend() or resume() on context c settles
StateChangeSettled(c) ==
  /\ micContexts[c] \in {"suspending", "resuming"}
  /\ micContexts' = [micContexts EXCEPT
                       ![c] = IF micContexts[c] = "suspending" THEN "suspended"
                              ELSE "running"]
  /\ UNCHANGED << streamRef, micAudioContextRef, audioWorkletNodeRef, sourceRef,
                  isCapturing, captureError, tracks, calls, orphaned, workletVars,
                  voiceVars >>

\* the frames one run's worklet nodes post
MaxPosted == 2

\* the effect on [onAudioData]: it runs after a render in which the identity
\* of the callback changed (and after the first render, when no node exists)
\* and sets port.onmessage of the node the ref holds then
OnAudioDataChanged ==
  /\ hooked' = IF audioWorkletNodeRef # 0 THEN hooked \cup {audioWorkletNodeRef}
               ELSE hooked
  /\ UNCHANGED << streamRef, micAudioContextRef, audioWorkletNodeRef, sourceRef,
                  isCapturing, captureError, tracks, micContexts, calls, orphaned,
                  posted, delivered, voiceVars >>

\* the processor of node c posts a PCM frame on its port: the connected node
\* of a context that is processing; port.onmessage, if set, runs onAudioData
WorkletPost(c) ==
  /\ audioWorkletNodeRef = c
  /\ micContexts[c] \in {"running", "suspending"}
  /\ posted < MaxPosted
  /\ posted' = posted + 1
  /\ delivered' = IF c \in hooked THEN delivered + 1 ELSE delivered
  /\ UNCHANGED << streamRef, micAudioContextRef, audioWorkletNodeRef, sourceRef,
                  isCapturing, captureError, tracks, micContexts, calls, orphaned,
                  hooked, voiceVars >>

\* stopMic() called by the caller
StopMic ==
  /\ StopCapture
  /\ stoppedOn' = IF isReady /\ << effIsReady, effIsMicActive >> = << isReady, isCapturing >>
                    THEN wsRef ELSE 0
  /\ UNCHANGED << reactVars, closureVars, wsRef, pcRef, playbackVars, eventQueueRef,
                  ws, pc, nextFrame, preReady, unhandled, suspended, interrupted,
                  finished, replaced, connectSettled, turnStart, configVars,
                  observerVars, autoStartMic, effIsReady, effIsMicActive >>

\* ------------------------------------------------------------------ init
HookInit ==
  /\ connectionState = "disconnected"
  /\ isReady = FALSE
  /\ error = "null"
  /\ videoStream = 0
  /\ audioStream = "null"
  /\ rIsReady = FALSE
  /\ rVideoStream = 0
  /\ wsRef = 0
  /\ pcRef = 0
  /\ audioContextRef = "null"
  /\ audioStreamDestinationRef = "null"
  /\ audioQueueRef = << >>
  /\ nextPlayTimeRef = 0
  /\ currentResponseIdRef = 0
  /\ responseStartTimeRef = -1
  /\ isFirstChunkRef = TRUE
  /\ eventQueueRef = << >>
  /\ ws = [s \in SocketIds |-> NoSocket]
  /\ pc = [p \in PcIds |-> NoPc]
  /\ now = 0
  /\ nextFrame = 1
  /\ preReady = {}
  /\ unhandled = FALSE
  /\ suspended = {}
  /\ interrupted = 0
  /\ finished = 0
  /\ unobserved = 0
  /\ ignored = 0
  /\ effIsReady = FALSE
  /\ effIsMicActive = FALSE
  /\ stoppedOn = 0
  /\ replaced = FALSE
  /\ connectSettled = "none"
  /\ turnStart = -1
  /\ avatarConfigured \in BOOLEAN
  /\ autoConnect = FALSE
  /\ BuilderIdle
  /\ CaptureInit

\* a hook mounted without a session configuration, autoStartMic: false
Init ==
  /\ HookInit
  /\ userConfig = Undefined
  /\ isAgentMode = FALSE
  /\ autoStartMic = FALSE

\* the sockets that are connecting or open, the peer connections not closed
LiveSockets == {s \in SocketIds : ws[s].readyState \in {"CONNECTING", "OPEN"}}
LivePcs     == {p \in PcIds : pc[p].state = "open"}

\* ------------------------------------------------------------ caller API
\* connect() up to its return: a new WebSocket whose onmessage is a
\* handleMessage that closed over videoStream = video
NewSocket(video) ==
  /\ \E s \in SocketIds :
       /\ ws[s].readyState = "NONE"
       /\ \A t \in SocketIds : t < s => ws[t].readyState # "NONE"
       /\ ws' = [ws EXCEPT ![s] = [NoSocket EXCEPT !.readyState = "CONNECTING",
                                                  !.hVideo = video]]
       /\ wsRef' = s
  /\ error' = "null"
  /\ connectionState' = "connecting"
  /\ replaced' = (replaced \/ wsRef \in LiveSockets)
  /\ connectSettled' = "resolved"
  /\ UNCHANGED << isReady, videoStream, audioStream, pcRef, playbackVars,
                  eventQueueRef, pc, nextFrame, preReady, unhandled, suspended,
                  interrupted, finished, turnStart, configVars, observerVars, effectVars, micVars >>

\* connect() called by the caller, with the callbacks of the latest render
Connect ==
  /\ NewSocket(rVideoStream)
  /\ UNCHANGED closureVars

\* connect() with a direct agent-mode configuration (agentId and a project
\* identifier) that has no agentAccessToken: the throw is caught inside
\* connect(), so the async function returns normally
ConnectAgentNoToken ==
  /\ error' = "agentAccessToken is required for Agent Service mode."
  /\ connectionState' = "error"
  /\ connectSettled' = "resolved"
  /\ UNCHANGED << isReady, videoStream, audioStream, closureVars, wsRef, pcRef,
                  playbackVars, eventQueueRef, ws, pc, nextFrame, preReady,
                  unhandled, suspended, interrupted, finished, replaced, turnStart,
                  configVars, observerVars, effectVars, micVars >>

\* an async message handler is suspended at an await on peer connection p
InFlight(p) ==
  /\ pc[p].state = "open"
  /\ \/ pc[p].nego \in {"createOffer", "setLocalDescription", "iceGathering"}
     \/ pc[p].remote = "pending"

\* disconnect() without the block that closes the peer connection
DisconnectKeepsPeer ==
  /\ audioQueueRef' = << >>
  /\ audioContextRef' = "null"
  /\ audioStreamDestinationRef' =
       IF audioContextRef = "open" /\ audioStreamDestinationRef = "live"
         THEN "stale" ELSE audioStreamDestinationRef
  /\ nextPlayTimeRef' = 0
  /\ ws' = IF wsRef # 0 /\ ws[wsRef].readyState \in {"CONNECTING", "OPEN"}
             THEN [ws EXCEPT ![wsRef].readyState = "CLOSING"] ELSE ws
  /\ wsRef' = 0
  /\ videoStream' = 0
  /\ audioStream' = "null"
  /\ isReady' = FALSE
  /\ connectionState' = "disconnected"
  /\ suspended' = suspended \cup {p \in PcIds : InFlight(p)}
  /\ UNCHANGED << error, closureVars, currentResponseIdRef, responseStartTimeRef,
                  isFirstChunkRef, now, eventQueueRef, nextFrame, preReady,
                  unhandled, interrupted, finished, replaced, connectSettled, turnStart,
                  configVars, observerVars, effectVars, pc, pcRef >>
  /\ StopCapture
\* disconnect(); its first statement is stopMic()
Disconnect ==
  /\ audioQueueRef' = << >>
  /\ audioContextRef' = "null"
  /\ audioStreamDestinationRef' =
       IF audioContextRef = "open" /\ audioStreamDestinationRef = "live"
         THEN "stale" ELSE audioStreamDestinationRef
  /\ nextPlayTimeRef' = 0
  /\ ws' = IF wsRef # 0 /\ ws[wsRef].readyState \in {"CONNECTING", "OPEN"}
             THEN [ws EXCEPT ![wsRef].readyState = "CLOSING"] ELSE ws
  /\ wsRef' = 0
  /\ pc' = IF pcRef # 0 THEN [pc EXCEPT ![pcRef].state = "closed"] ELSE pc
  /\ pcRef' = 0
  /\ videoStream' = 0
  /\ audioStream' = "null"
  /\ isReady' = FALSE
  /\ connectionState' = "disconnected"
  /\ suspended' = suspended \cup {p \in PcIds : InFlight(p)}
  /\ UNCHANGED << error, closureVars, currentResponseIdRef, responseStartTimeRef,
                  isFirstChunkRef, now, eventQueueRef, nextFrame, preReady,
                  unhandled, interrupted, finished, replaced, connectSettled, turnStart,
                  configVars, observerVars, effectVars >>
  /\ StopCapture

\* the handshake window: a connection attempt is in progress and the session
\* is not ready
Handshaking ==
  /\ ~isReady
  /\ wsRef # 0
  /\ ws[wsRef].readyState \in {"CONNECTING", "OPEN"}

\* sendEvent({type: 'input_audio_buffer.append'}) by the caller (or by the
\* microphone callback through sendEventRef); preReady records the frames
\* submitted in the handshake window
SendAppend ==
  /\ nextFrame <= MaxFrames
  /\ Room(ws, wsRef, 1)
  /\ LET r == SendEvent(AppendEvent(nextFrame), rIsReady, eventQueueRef, ws, wsRef)
     IN /\ eventQueueRef' = r.q
        /\ ws' = r.ws
  /\ preReady' = IF Handshaking THEN preReady \cup {nextFrame} ELSE preReady
  /\ nextFrame' = nextFrame + 1
  /\ UNCHANGED << reactVars, closureVars, wsRef, pcRef, playbackVars, pc,
                  unhandled, suspended, interrupted, finished, replaced, connectSettled, turnStart, configVars, observerVars, effectVars, micVars >>

\* one React render with its effects: the callbacks are re-created over the
\* current state.  sendEvent depends on isReady, handleMessage on sendEvent
\* and videoStream, connect on handleMessage: the render gives connect a new
\* identity, so the effect on [autoConnect, connect] runs again.
Render ==
  /\ << rIsReady, rVideoStream >> # << isReady, videoStream >>
  /\ rIsReady' = isReady
  /\ rVideoStream' = videoStream
  /\ IF autoConnect
       THEN NewSocket(videoStream)
       ELSE UNCHANGED << reactVars, wsRef, pcRef, playbackVars, eventQueueRef, ws,
                         pc, historyVars, micVars >>

\* ------------------------------------------------------- socket events
\* ws.onopen
WsOpen(s) ==
  /\ ws[s].readyState = "CONNECTING"
  /\ ws' = [ws EXCEPT ![s].readyState = "OPEN"]
  /\ connectionState' = "connected"
  /\ audioContextRef' = "open"
  /\ now' = IF audioContextRef = "null" THEN 0 ELSE now
  /\ IF audioStreamDestinationRef = "null" /\ ~avatarConfigured
       THEN /\ audioStreamDestinationRef' = "live"
            /\ audioStream' = "dest"
       ELSE UNCHANGED << audioStreamDestinationRef, audioStream >>
  /\ UNCHANGED << isReady, error, videoStream, closureVars, wsRef, pcRef,
                  audioQueueRef, nextPlayTimeRef, currentResponseIdRef,
                  responseStartTimeRef, isFirstChunkRef, eventQueueRef, pc,
                  historyVars, micVars >>

\* the close event alone (a clean close, or the end of ws.close()): ws.onclose
WsClose(s) ==
  /\ ws[s].readyState \in {"OPEN", "CLOSING"}
  /\ ws' = [ws EXCEPT ![s].readyState = "CLOSED"]
  /\ connectionState' = "disconnected"
  /\ isReady' = FALSE
  /\ UNCHANGED << error, videoStream, audioStream, closureVars, wsRef, pcRef,
                  playbackVars, eventQueueRef, pc, historyVars, micVars >>

\* a failed connection: the browser fires error and then close in one task,
\* ws.onerror followed by ws.onclose
WsFail(s) ==
  /\ ws[s].readyState \in {"CONNECTING", "OPEN", "CLOSING"}
  /\ ws' = [ws EXCEPT ![s].readyState = "CLOSED"]
  /\ error' = "WebSocket connection error"
  /\ connectionState' = "disconnected"
  /\ isReady' = FALSE
  /\ UNCHANGED << videoStream, audioStream, closureVars, wsRef, pcRef,
                  playbackVars, eventQueueRef, pc, historyVars, micVars >>

\* ------------------------------------------------------ playback scheduler
\* a scheduler that looks at the cursor only
CursorOnly(a, b) == b
\* Math.max
Max(a, b) == IF a >= b THEN a ELSE b

\* stopAudioPlayback() that forgets the cursor
StopKeepsCursor ==
  /\ audioQueueRef' = << >>
  /\ nextPlayTimeRef' = nextPlayTimeRef
\* stopAudioPlayback(): every source stopped (a source that has already ended
\* may throw, inside try / catch), the list cleared, the cursor reset
StopAudioPlayback ==
  /\ audioQueueRef' = << >>
  /\ nextPlayTimeRef' = 0

\* playAudioChunk(base64Audio); chunk = -1 is a string atob rejects, chunk > 0
\* the duration of the decoded buffer.  The whole body is inside try / catch.
PlayAudioChunk(rid, chunk) ==
  LET created   == audioContextRef = "null"
      cursor    == IF created THEN 0 ELSE nextPlayTimeRef
      current   == IF created THEN 0 ELSE now
      scheduleTime == Max(current, cursor)
  IN
  /\ audioContextRef' = "open"
  /\ now' = current
  /\ IF chunk = -1
       THEN \* atob throws: caught and logged
            /\ nextPlayTimeRef' = cursor
            /\ UNCHANGED << responseStartTimeRef, isFirstChunkRef, audioQueueRef,
                            turnStart >>
       ELSE /\ responseStartTimeRef' =
                 IF isFirstChunkRef THEN scheduleTime ELSE responseStartTimeRef
            /\ isFirstChunkRef' = FALSE
            /\ IF audioStreamDestinationRef = "stale"
                 THEN \* source.connect to a node of another (closed) context throws
                      /\ nextPlayTimeRef' = cursor
                      /\ UNCHANGED << audioQueueRef, turnStart >>
                 ELSE /\ nextPlayTimeRef' = scheduleTime + chunk
                      /\ turnStart' = IF turnStart = -1 THEN scheduleTime ELSE turnStart
                      /\ audioQueueRef' = Append(audioQueueRef,
                           [rid |-> rid, start |-> scheduleTime, dur |-> chunk,
                            sink |-> IF audioStreamDestinationRef = "live"
                                       THEN "dest" ELSE "speakers"])

\* getAudioPlaybackTime(): null (-1) without an audio context or a start
\* reference, else the milliseconds since the reference, not below zero
GetAudioPlaybackTime ==
  IF audioContextRef = "null" \/ responseStartTimeRef = -1
    THEN -1
    ELSE Max(0, (now - responseStartTimeRef) * 1000)

\* the guard of case 'response.audio.delta'
ChunkAcceptedNoIdCheck(delta, video, rid, cur) == delta # 0 /\ video = 0
ChunkAccepted(delta, video, rid, cur) == delta # 0 /\ video = 0 /\ rid = cur

\* the audio clock advances
Tick ==
  /\ audioContextRef = "open"
  /\ now < MaxTime
  /\ now' = now + 1
  /\ UNCHANGED << reactVars, closureVars, wsRef, pcRef, audioContextRef,
                  audioStreamDestinationRef, audioQueueRef, nextPlayTimeRef,
                  currentResponseIdRef, responseStartTimeRef, isFirstChunkRef,
                  eventQueueRef, ws, pc, historyVars, micVars >>

\* ------------------------------------------------- handleMessage, by type
\* A message event is dispatched only on an OPEN socket.  The handler is the
\* one connect() installed: it reads videoStream as ws[s].hVideo.  Its
\* sendEvent sends no append event, so the isReady it closed over is not read.

\* case 'session.created'
SessionCreated(s) ==
  /\ ws[s].readyState = "OPEN"
  /\ Room(ws, wsRef, 1)
  /\ LET r == SendEvent(SessionUpdate, FALSE, eventQueueRef, ws, wsRef)
     IN /\ eventQueueRef' = r.q
        /\ ws' = [r.ws EXCEPT ![s].created = TRUE]
  /\ UNCHANGED << reactVars, closureVars, wsRef, pcRef, playbackVars, pc,
                  historyVars, micVars >>

\* setIsReady(true) followed by the flush of the queued audio events
MarkReadyAndFlush ==
  /\ isReady' = TRUE
  /\ LET r == Flush(eventQueueRef, ws, wsRef)
     IN /\ eventQueueRef' = r.q
        /\ ws' = r.ws

\* case 'session.updated' without avatar ICE servers (voice-only)
SessionUpdatedVoice(s) ==
  /\ ws[s].readyState = "OPEN"
  /\ Room(ws, wsRef, Len(eventQueueRef))
  /\ MarkReadyAndFlush
  /\ UNCHANGED << connectionState, error, videoStream, audioStream, closureVars,
                  wsRef, pcRef, playbackVars, pc, historyVars, micVars >>

\* case 'session.updated' with avatar ICE servers: a new RTCPeerConnection,
\* up to the first await (createOffer)
SessionUpdatedAvatar(s) ==
  /\ ws[s].readyState = "OPEN"
  /\ \E p \in PcIds :
       /\ pc[p].state = "none"
       /\ \A o \in PcIds : o < p => pc[o].state # "none"
       /\ pc' = [pc EXCEPT ![p] = [state |-> "open", nego |-> "createOffer",
                                   remote |-> "none", sock |-> s]]
       /\ pcRef' = p
  /\ replaced' = (replaced \/ pcRef \in LivePcs)
  /\ UNCHANGED << reactVars, closureVars, wsRef, playbackVars, eventQueueRef, ws,
                  nextFrame, preReady, unhandled, suspended, interrupted, finished,
                  connectSettled, turnStart, configVars, observerVars, effectVars, micVars >>

\* the handler resumes after `await newPc.createOffer()` and calls
\* setLocalDescription.  A closed peer connection settles no promise.
CreateOfferResolved(p) ==
  /\ pc[p].state = "open"
  /\ pc[p].nego = "createOffer"
  /\ pc' = [pc EXCEPT ![p].nego = "setLocalDescription"]
  /\ UNCHANGED << reactVars, closureVars, wsRef, pcRef, playbackVars,
                  eventQueueRef, ws, historyVars, micVars >>

\* the part of the handler after the ICE wait: session.avatar.connect
\* a handler that sends the offer and stays in its wait
SendAvatarConnectKeepsWaiting(p) ==
  /\ Room(ws, wsRef, 1)
  /\ LET r == SendEvent(AvatarConnect(p), FALSE, eventQueueRef, ws, wsRef)
     IN /\ eventQueueRef' = r.q
        /\ ws' = r.ws
  /\ UNCHANGED pc

SendAvatarConnect(p) ==
  /\ Room(ws, wsRef, 1)
  /\ LET r == SendEvent(AvatarConnect(p), FALSE, eventQueueRef, ws, wsRef)
     IN /\ eventQueueRef' = r.q
        /\ ws' = r.ws
  /\ pc' = [pc EXCEPT ![p].nego = "done"]

\* the handler resumes after `await newPc.setLocalDescription(offer)`:
\* gathering is complete already (it goes on at once) or it waits
SetLocalDescriptionResolved(p) ==
  /\ pc[p].state = "open"
  /\ pc[p].nego = "setLocalDescription"
  /\ \/ /\ pc' = [pc EXCEPT ![p].nego = "iceGathering"]
        /\ UNCHANGED << eventQueueRef, ws >>
     \/ SendAvatarConnect(p)
  /\ UNCHANGED << reactVars, closureVars, wsRef, pcRef, playbackVars, historyVars, micVars >>

\* icegatheringstatechange to 'complete' resolves the wait
IceGatheringComplete(p) ==
  /\ pc[p].state = "open"
  /\ pc[p].nego = "iceGathering"
  /\ SendAvatarConnect(p)
  /\ UNCHANGED << reactVars, closureVars, wsRef, pcRef, playbackVars, historyVars, micVars >>

\* the session.avatar.connect events written to a socket
NumConnects(log) ==
  Cardinality({i \in 1..Len(log) : log[i].type = "session.avatar.connect"})

\* case 'session.avatar.connecting', up to `await setRemoteDescription`.  The
\* service sends it in answer to a session.avatar.connect of the same socket;
\* sdp = FALSE: the event carries no server_sdp.
AvatarConnecting(s, sdp) ==
  /\ ws[s].readyState = "OPEN"
  /\ ws[s].answered < NumConnects(ws[s].sent)
  /\ ws' = [ws EXCEPT ![s].answered = @ + 1]
  /\ IF sdp /\ pcRef # 0
       THEN /\ pc[pcRef].remote = "none"
            /\ pc' = [pc EXCEPT ![pcRef].remote = "pending"]
       ELSE UNCHANGED pc
  /\ UNCHANGED << reactVars, closureVars, wsRef, pcRef, playbackVars,
                  eventQueueRef, historyVars, micVars >>

\* setRemoteDescription of an answer succeeds only against a local offer
HasLocalOffer(p) == pc[p].nego \in {"iceGathering", "done"}

\* setRemoteDescription succeeds: the track events (newPc.ontrack) fire, then
\* the handler resumes, marks the session ready and flushes
SetRemoteDescriptionResolved(p, video, audio) ==
  /\ pc[p].state = "open"
  /\ pc[p].remote = "pending"
  /\ HasLocalOffer(p)
  /\ Room(ws, wsRef, Len(eventQueueRef))
  /\ pc' = [pc EXCEPT ![p].remote = "set"]
  /\ videoStream' = IF video THEN 1 ELSE videoStream
  /\ audioStream' = IF audio THEN "pc" ELSE audioStream
  /\ MarkReadyAndFlush
  /\ UNCHANGED << connectionState, error, closureVars, wsRef, pcRef, playbackVars,
                  historyVars, micVars >>

\* setRemoteDescription rejects (no local offer to answer): the async handler
\* rejects and nothing catches it
SetRemoteDescriptionRejected(p) ==
  /\ pc[p].state = "open"
  /\ pc[p].remote = "pending"
  /\ ~HasLocalOffer(p)
  /\ pc' = [pc EXCEPT ![p].remote = "failed"]
  /\ unhandled' = TRUE
  /\ UNCHANGED << reactVars, closureVars, wsRef, pcRef, playbackVars,
                  eventQueueRef, ws, nextFrame, preReady, suspended, interrupted, finished,
                  replaced, connectSettled, turnStart, configVars, observerVars, effectVars, micVars >>

\* case 'response.created'; id = 0: the event carries no response id
ResponseCreated(s, id) ==
  /\ ws[s].readyState = "OPEN"
  /\ IF id # 0
       THEN /\ currentResponseIdRef' = id
            /\ isFirstChunkRef' = TRUE
            /\ responseStartTimeRef' = -1
            /\ interrupted' = 0
            /\ finished' = 0
            /\ turnStart' = -1
       ELSE UNCHANGED << currentResponseIdRef, isFirstChunkRef, responseStartTimeRef,
                         interrupted, turnStart, finished >>
  /\ UNCHANGED << reactVars, closureVars, wsRef, pcRef, audioContextRef,
                  audioStreamDestinationRef, audioQueueRef, nextPlayTimeRef, now,
                  eventQueueRef, ws, pc, nextFrame, preReady, unhandled, suspended,
                  replaced, connectSettled, configVars, observerVars, effectVars, micVars >>

\* case 'input_audio_buffer.speech_started' (barge-in)
SpeechStarted(s) ==
  /\ ws[s].readyState = "OPEN"
  /\ StopAudioPlayback
  /\ interrupted' = currentResponseIdRef
  /\ UNCHANGED << reactVars, closureVars, wsRef, pcRef, audioContextRef,
                  audioStreamDestinationRef, currentResponseIdRef,
                  responseStartTimeRef, isFirstChunkRef, now, eventQueueRef, ws,
                  pc, nextFrame, preReady, unhandled, suspended, finished, replaced,
                  connectSettled, turnStart, configVars, observerVars, effectVars, micVars >>

\* case 'response.audio.delta'; delta = 0 is an empty string
AudioDelta(s, rid, delta) ==
  /\ ws[s].readyState = "OPEN"
  /\ IF ChunkAccepted(delta, ws[s].hVideo, rid, currentResponseIdRef)
       THEN /\ Len(audioQueueRef) < MaxQueue
            /\ PlayAudioChunk(rid, delta)
       ELSE UNCHANGED << audioContextRef, now, nextPlayTimeRef, responseStartTimeRef,
                         isFirstChunkRef, audioQueueRef, turnStart >>
  /\ UNCHANGED << reactVars, closureVars, wsRef, pcRef, audioStreamDestinationRef,
                  currentResponseIdRef, eventQueueRef, ws, pc, nextFrame, preReady,
                  unhandled, suspended, interrupted, finished, replaced, connectSettled,
                  configVars, observerVars, effectVars, micVars >>

\* case 'response.audio.done'
AudioDone(s, rid) ==
  /\ ws[s].readyState = "OPEN"
  /\ nextPlayTimeRef' = IF rid = currentResponseIdRef THEN 0 ELSE nextPlayTimeRef
  /\ finished' = IF rid = currentResponseIdRef THEN rid ELSE finished
  /\ UNCHANGED << reactVars, closureVars, wsRef, pcRef, audioContextRef,
                  audioStreamDestinationRef, audioQueueRef, currentResponseIdRef,
                  responseStartTimeRef, isFirstChunkRef, now, eventQueueRef, ws,
                  pc, nextFrame, preReady, unhandled, suspended, interrupted,
                  replaced, connectSettled, turnStart, configVars, observerVars, effectVars, micVars >>

\* data.error?.message of an error event: "absent" when the error object or
\* its message is missing
ErrorMessages == {"absent", "", "service message"}

\* data.error?.message || 'Unknown API error'
MessageOrGeneric(msg) ==
  IF msg = "absent" \/ msg = "" THEN "Unknown API error" ELSE msg

\* case 'error' that also gives up the connection state
ErrorEventSetsState(s, msg) ==
  /\ ws[s].readyState = "OPEN"
  /\ error' = MessageOrGeneric(msg)
  /\ connectionState' = "error"
  /\ UNCHANGED << isReady, videoStream, audioStream, closureVars,
                  wsRef, pcRef, playbackVars, eventQueueRef, ws, pc, historyVars, micVars >>
\* case 'error'
ErrorEvent(s, msg) ==
  /\ ws[s].readyState = "OPEN"
  /\ error' = MessageOrGeneric(msg)
  /\ UNCHANGED << connectionState, isReady, videoStream, audioStream, closureVars,
                  wsRef, pcRef, playbackVars, eventQueueRef, ws, pc, historyVars, micVars >>

\* the frames of a type without a case that one run dispatches
MaxIgnored == 1

\* handleMessage up to its switch: the frame is parsed and, before the type is
\* looked at, passed to the caller's onEvent; every handler action starts so
OnEvent == unobserved' = unobserved

\* a handleMessage that calls onEvent inside the cases of its switch only
OtherEventNotObserved(s) ==
  /\ ws[s].readyState = "OPEN"
  /\ ignored < MaxIgnored
  /\ ignored' = ignored + 1
  /\ unobserved' = unobserved + 1
  /\ UNCHANGED << reactVars, closureVars, wsRef, pcRef, playbackVars, eventQueueRef,
                  ws, pc, nextFrame, preReady, unhandled, suspended, interrupted,
                  finished, replaced, connectSettled, turnStart, configVars, effectVars,
                  micVars >>

\* a frame of a type the switch has no case for ('response.done',
\* 'rate_limits.updated', ...): onEvent, then the switch falls through
OtherEvent(s) ==
  /\ ws[s].readyState = "OPEN"
  /\ ignored < MaxIgnored
  /\ ignored' = ignored + 1
  /\ OnEvent
  /\ UNCHANGED << reactVars, closureVars, wsRef, pcRef, playbackVars, eventQueueRef,
                  ws, pc, nextFrame, preReady, unhandled, suspended, interrupted,
                  finished, replaced, connectSettled, turnStart, configVars, effectVars,
                  micVars >>

\* the payloads of response.audio.delta: malformed, empty, or a duration
Deltas == (-1)..MaxDur

\* ------------------------------------------------------- specifications
\* The hook is checked in slices: every specification runs the connection
\* life cycle together with the handlers of one concern, over the same state.
\* the connection life cycle, common to the specifications below
Lifecycle ==
  \/ Connect
  \/ Disconnect
  \/ \E s \in SocketIds : WsOpen(s)
  \/ \E s \in SocketIds : WsClose(s)
  \/ \E s \in SocketIds : WsFail(s)

\* the continuations of the avatar media negotiation
NegotiationSteps ==
  \/ \E p \in PcIds : CreateOfferResolved(p)
  \/ \E p \in PcIds : SetLocalDescriptionResolved(p)
  \/ \E p \in PcIds : IceGatheringComplete(p)
  \/ \E p \in PcIds, video \in BOOLEAN, audio \in BOOLEAN :
       SetRemoteDescriptionResolved(p, video, audio)

\* a service that may accept a configuration with ICE servers any number of
\* times, on any live socket
Negotiation ==
  \/ \E s \in SocketIds : SessionUpdatedAvatar(s)
  \/ \E s \in SocketIds, sdp \in BOOLEAN : AvatarConnecting(s, sdp)
  \/ \E p \in PcIds : SetRemoteDescriptionRejected(p)
  \/ NegotiationSteps

\* a service that accepts the avatar configuration once per peer connection,
\* on the socket the hook refers to
NegotiationOnce ==
  \/ \E s \in SocketIds : pcRef = 0 /\ s = wsRef /\ SessionUpdatedAvatar(s)
  \/ \E s \in SocketIds : AvatarConnecting(s, TRUE)
  \/ NegotiationSteps

\* the session handshake of a voice-only session, with the caller's audio
\* events
Next ==
  \/ Lifecycle
  \/ Render
  \/ SendAppend
  \/ \E s \in SocketIds : SessionCreated(s)
  \/ \E s \in SocketIds : SessionUpdatedVoice(s)

Spec == Init /\ [][Next]_vars

\* the media negotiation under every order of the service's events
NextAvatar ==
  \/ Lifecycle
  \/ Render
  \/ Negotiation
  \/ \E s \in SocketIds : SessionUpdatedVoice(s)

SpecAvatar == Init /\ [][NextAvatar]_vars

\* the playback path: the inbound audio events and the audio clock
NextPlayback ==
  \/ Lifecycle
  \/ Tick
  \/ \E s \in SocketIds, id \in 0..MaxResp : ResponseCreated(s, id)
  \/ \E s \in SocketIds : SpeechStarted(s)
  \/ \E s \in SocketIds, rid \in RespIds, delta \in Deltas : AudioDelta(s, rid, delta)
  \/ \E s \in SocketIds, rid \in RespIds : AudioDone(s, rid)

SpecPlayback == Init /\ [][NextPlayback]_vars

\* audio events of an avatar session
NextMedia ==
  \/ Lifecycle
  \/ Render
  \/ NegotiationOnce
  \/ \E s \in SocketIds, id \in 0..MaxResp : ResponseCreated(s, id)
  \/ \E s \in SocketIds, rid \in RespIds, delta \in Deltas : AudioDelta(s, rid, delta)

SpecMedia == Init /\ [][NextMedia]_vars

\* the ready signal of either mode, with the caller's audio events
NextReady ==
  \/ Lifecycle
  \/ Render
  \/ NegotiationOnce
  \/ SendAppend
  \/ \E s \in SocketIds : SessionUpdatedVoice(s)

SpecReady == Init /\ [][NextReady]_vars

\* the error paths: a connect() that fails fast and the service's error event
NextFaults ==
  \/ Lifecycle
  \/ Render
  \/ ConnectAgentNoToken
  \/ \E s \in SocketIds : SessionUpdatedVoice(s)
  \/ SendAppend
  \/ \E s \in SocketIds, id \in 0..MaxResp : ResponseCreated(s, id)
  \/ \E s \in SocketIds, rid \in RespIds, delta \in Deltas : AudioDelta(s, rid, delta)
  \/ \E s \in SocketIds, msg \in ErrorMessages : ErrorEvent(s, msg)

SpecFaults == Init /\ [][NextFaults]_vars

\* the inbound frames of a voice-only session, those without a case included
NextObserve ==
  \/ Lifecycle
  \/ Render
  \/ SendAppend
  \/ \E s \in SocketIds : SessionUpdatedVoice(s)
  \/ \E s \in SocketIds, id \in 0..MaxResp : ResponseCreated(s, id)
  \/ \E s \in SocketIds, msg \in ErrorMessages : ErrorEvent(s, msg)
  \/ \E s \in SocketIds : OtherEvent(s)

SpecObserve == Init /\ [][NextObserve]_vars

\* a hook mounted with autoConnect: the state after the first render, whose
\* effect has called connect()
InitAuto ==
  /\ connectionState = "connecting"
  /\ isReady = FALSE
  /\ error = "null"
  /\ videoStream = 0
  /\ audioStream = "null"
  /\ rIsReady = FALSE
  /\ rVideoStream = 0
  /\ wsRef = 1
  /\ pcRef = 0
  /\ audioContextRef = "null"
  /\ audioStreamDestinationRef = "null"
  /\ audioQueueRef = << >>
  /\ nextPlayTimeRef = 0
  /\ currentResponseIdRef = 0
  /\ responseStartTimeRef = -1
  /\ isFirstChunkRef = TRUE
  /\ eventQueueRef = << >>
  /\ ws = [s \in SocketIds |->
             IF s = 1 THEN [NoSocket EXCEPT !.readyState = "CONNECTING"]
                      ELSE NoSocket]
  /\ pc = [p \in PcIds |-> NoPc]
  /\ now = 0
  /\ nextFrame = 1
  /\ preReady = {}
  /\ unhandled = FALSE
  /\ suspended = {}
  /\ interrupted = 0
  /\ finished = 0
  /\ unobserved = 0
  /\ ignored = 0
  /\ autoStartMic = FALSE
  /\ effIsReady = FALSE
  /\ effIsMicActive = FALSE
  /\ stoppedOn = 0
  /\ replaced = FALSE
  /\ connectSettled = "resolved"
  /\ turnStart = -1
  /\ avatarConfigured \in BOOLEAN
  /\ autoConnect = TRUE
  /\ userConfig = Undefined
  /\ isAgentMode = FALSE
  /\ BuilderIdle
  /\ CaptureInit

\* an autoConnect session: the caller never calls connect() itself
NextAuto ==
  \/ Disconnect
  \/ Render
  \/ \E s \in SocketIds : WsOpen(s)
  \/ \E s \in SocketIds : WsClose(s)
  \/ \E s \in SocketIds : WsFail(s)
  \/ NegotiationOnce
  \/ \E s \in SocketIds : SessionCreated(s)
  \/ \E s \in SocketIds : SessionUpdatedVoice(s)

SpecAuto == InitAuto /\ [][NextAuto]_vars

\* the microphone: startMic() and stopMic() by the caller, the outcomes of
\* the awaited steps, and the connection life cycle (disconnect() stops the
\* microphone)
NextCapture ==
  \/ Lifecycle
  \/ StartCapture
  \/ StopMic
  \/ \E c \in CallIds : GetUserMediaRejected(c)
  \/ \E c \in CallIds, constructed \in BOOLEAN : GetUserMediaResolved(c, constructed)
  \/ \E c \in CallIds : AddModuleRejected(c)
  \/ \E c \in CallIds, created \in BOOLEAN : AddModuleResolved(c, created)
  \/ PauseCapture
  \/ ResumeCapture
  \/ \E c \in CallIds : StateChangeSettled(c)

SpecCapture == Init /\ [][NextCapture]_vars

\* a voice-only hook mounted with the default autoStartMic: true
InitMic ==
  /\ HookInit
  /\ ~avatarConfigured
  /\ userConfig = Undefined
  /\ isAgentMode = FALSE
  /\ autoStartMic = TRUE

\* a render after a change of state in a hook without autoConnect: the
\* callbacks close over the new state, and the auto-start effect runs when
\* one of its dependencies [isReady, autoStartMic, isMicActive, startMic]
\* changed; startMic().catch(...) is not awaited
RenderAutoStartMic ==
  /\ << rIsReady, rVideoStream, effIsReady, effIsMicActive >> #
       << isReady, videoStream, isReady, isCapturing >>
  /\ rIsReady' = isReady
  /\ rVideoStream' = videoStream
  /\ effIsReady' = isReady
  /\ effIsMicActive' = isCapturing
  /\ IF /\ << effIsReady, effIsMicActive >> # << isReady, isCapturing >>
        /\ isReady /\ autoStartMic /\ ~isCapturing
       THEN BeginCapture
       ELSE UNCHANGED << calls, captureError >>
  /\ UNCHANGED << reactVars, wsRef, pcRef, playbackVars, eventQueueRef, ws, pc,
                  nextFrame, preReady, unhandled, suspended, interrupted, finished,
                  replaced, connectSettled, turnStart, configVars, observerVars,
                  autoStartMic, stoppedOn, streamRef, micAudioContextRef,
                  audioWorkletNodeRef, sourceRef, isCapturing, tracks, micContexts,
                  orphaned, workletVars >>

\* the microphone of a voice-only session with autoStartMic: the caller
\* connects, disconnects and calls stopMic(), never startMic()
NextMic ==
  \/ Lifecycle
  \/ \E s \in SocketIds : SessionUpdatedVoice(s)
  \/ RenderAutoStartMic
  \/ StopMic
  \/ \E c \in CallIds, constructed \in BOOLEAN : GetUserMediaResolved(c, constructed)
  \/ \E c \in CallIds, created \in BOOLEAN : AddModuleResolved(c, created)

SpecMic == InitMic /\ [][NextMic]_vars

\* useAudioCapture with its worklet: the caller starts, stops, pauses and
\* resumes, may hand in a new callback, and the worklet posts frames
NextWorklet ==
  \/ StartCapture
  \/ StopMic
  \/ \E c \in CallIds, constructed \in BOOLEAN : GetUserMediaResolved(c, constructed)
  \/ \E c \in CallIds, created \in BOOLEAN : AddModuleResolved(c, created)
  \/ PauseCapture
  \/ ResumeCapture
  \/ \E c \in CallIds : StateChangeSettled(c)
  \/ OnAudioDataChanged
  \/ \E c \in CallIds : WorkletPost(c)

SpecWorklet == Init /\ [][NextWorklet]_vars

\* ------------------------------------------------ the builders alone
\* the user configurations the builders are applied to
UserConfigs ==
  {Undefined} \cup
  { Obj([NoConfig EXCEPT !.instructions = i, !.temperature = t, !.modalities = m,
                         !.tools = tl, !.toolChoice = tc,
                         !.inputAudioEchoCancellation = ec, !.turnDetection = td,
                         !.voice = v, !.avatar = a]) :
      i  \in {Undefined, Null, Str(""), Str("You are a helpful assistant")},
      t  \in {Undefined, Null, Num("0.5")},
      m  \in {Undefined, Null, Arr(<< "audio" >>)},
      tl \in {Undefined, Arr(<< "get_weather" >>)},
      tc \in {Undefined, Null},
      ec \in {Undefined, Null},
      td \in {Undefined, Null,
              Obj([NoTurnDetection EXCEPT !.threshold = Num("0.7")]),
              Obj([NoTurnDetection EXCEPT !.type = Str("server_vad"),
                                          !.threshold = Null])},
      v  \in {Undefined, Str("echo"),
              Obj([NoVoice EXCEPT !.name = Str("en-US-Ava:DragonHDLatestNeural"),
                                  !.type = Str("azure-standard"),
                                  !.temperature = Num("0.9"),
                                  !.rate = Num("1.2")]),
              Obj([NoVoice EXCEPT !.name = Str("en-US-Ava:DragonHDLatestNeural"),
                                  !.rate = Str("1.2")])},
      a  \in {Undefined,
              Obj([NoAvatar EXCEPT !.character = Str("lisa"),
                                   !.style = Str("casual-sitting")])} }

InitBuilder ==
  /\ HookInit
  /\ userConfig \in UserConfigs
  /\ isAgentMode \in BOOLEAN
  /\ avatarConfigured = Truthy(Get(userConfig, "avatar"))
  /\ autoStartMic = FALSE

\* everything but the builders' results
builderInputs ==
  << reactVars, closureVars, wsRef, pcRef, playbackVars, eventQueueRef, ws, pc,
     nextFrame, preReady, unhandled, suspended, interrupted, finished, replaced,
     connectSettled, turnStart, avatarConfigured, autoConnect, observerVars, effectVars, micVars,
     userConfig, isAgentMode >>

\* a call of buildSessionConfig(session)
BuildSessionConfig ==
  /\ merged' = Obj(MergedConfig(userConfig))
  /\ built' = buildSessionConfig(userConfig)
  /\ builder' = "session"
  /\ UNCHANGED << validated, partialSession, builderInputs >>

\* a call of buildAgentSessionConfig(session)
BuildAgentSessionConfig ==
  /\ built' = buildAgentSessionConfig(userConfig)
  /\ builder' = "agent"
  /\ UNCHANGED << merged, validated, partialSession, builderInputs >>

\* a call of validateConfig(session, isAgentMode) on a configuration object
ValidateConfig ==
  /\ userConfig # Undefined
  /\ validated' = validateConfig(userConfig, isAgentMode)
  /\ UNCHANGED << merged, built, builder, partialSession, builderInputs >>

\* the arguments of updateSession: one sub-field of a nested setting, a
\* top-level field, a feature switched off
PartialSessions ==
  { Obj([NoConfig EXCEPT
           !.turnDetection = Obj([NoTurnDetection EXCEPT
                                    !.silenceDurationMs = Num("700")])]),
    Obj([NoConfig EXCEPT !.instructions = Str("Be brief")]),
    Obj([NoConfig EXCEPT !.turnDetection = Null]) }

\* { ...session, ...partialSession }: the own properties of the partial
\* replace those of the session, whole value by whole value
SpreadSession(session, partial) ==
  Obj([k \in ConfigKeys |->
         IF Get(partial, k) # Undefined THEN Get(partial, k) ELSE Get(session, k)])

\* updateSession(partialSession): the descriptor handed to sendEvent
UpdateSession(partial) ==
  /\ merged' = Obj(MergedConfig(SpreadSession(userConfig, partial)))
  /\ built' = buildSessionConfig(SpreadSession(userConfig, partial))
  /\ builder' = "update"
  /\ partialSession' = partial
  /\ UNCHANGED << validated, builderInputs >>

\* the descriptor case 'session.created' builds: the builder is chosen by
\* isAgentModeRef
SessionCreatedConfig ==
  /\ built' = IF isAgentMode THEN buildAgentSessionConfig(userConfig)
              ELSE buildSessionConfig(userConfig)
  /\ builder' = "created"
  /\ UNCHANGED << merged, validated, partialSession, builderInputs >>

NextBuilder ==
  \/ BuildSessionConfig
  \/ BuildAgentSessionConfig
  \/ ValidateConfig

SpecBuilder == InitBuilder /\ [][NextBuilder]_vars

\* the descriptors the hook itself builds and sends in a session
NextUpdate ==
  \/ SessionCreatedConfig
  \/ \E partial \in PartialSessions : UpdateSession(partial)

SpecUpdate == InitBuilder /\ [][NextUpdate]_vars

\* ------------------------------------------------------------ claims
IsAppend(e) == e.type = "input_audio_buffer.append"
IsUpdate(e) == e.type = "session.update"

\* how often append event f occurs in a sequence of events
Occurrences(f, log) ==
  Cardinality({i \in 1..Len(log) : IsAppend(log[i]) /\ log[i].n = f})
\* how often append event f was written to a socket, all sockets together
RECURSIVE WrittenUpTo(_, _)
WrittenUpTo(f, s) ==
  IF s = 0 THEN 0 ELSE Occurrences(f, ws[s].sent) + WrittenUpTo(f, s - 1)
Written(f) == WrittenUpTo(f, MaxSockets)
\* the append events of a log are in the order of their submission
InOrder(log) ==
  \A i, j \in 1..Len(log) :
    (i < j /\ IsAppend(log[i]) /\ IsAppend(log[j])) => log[i].n < log[j].n
NumUpdates(log) == Cardinality({i \in 1..Len(log) : IsUpdate(log[i])})

\* C1: every append event passed to sendEvent during the handshake (a socket
\* is connecting or open, the session not yet ready) goes to the pre-ready
\* queue, and every such event is afterwards either still queued or written
\* to the control channel exactly once, in the order of submission (so a
\* repeated ready signal writes none again, and none is dropped).
C1_PreReadyQueuedThenFlushedOnce ==
  [][ /\ (Handshaking /\ SendAppend) =>
           eventQueueRef' = Append(eventQueueRef, AppendEvent(nextFrame))
      /\ \A f \in preReady' :
           Occurrences(f, eventQueueRef') + Written(f)' = 1
      /\ \A s \in SocketIds : InOrder(ws'[s].sent) ]_vars

\* C2: while the session is ready the pre-ready queue is bypassed: no event
\* is in the queue while isReady holds.
C2_QueueBypassedWhenReady == isReady => eventQueueRef = << >>

\* C3: session.update is written to a socket only after session.created was
\* received on that socket, and every receipt of session.created writes
\* exactly one session.update to the socket it arrived on.
C3_UpdateOnlyAfterCreated ==
  [][ /\ \A s \in SocketIds :
           NumUpdates(ws'[s].sent) > NumUpdates(ws[s].sent) => ws'[s].created
      /\ \A s \in SocketIds :
           SessionCreated(s) =>
             NumUpdates(ws'[s].sent) = NumUpdates(ws[s].sent) + 1 ]_vars

\* the state a step's ready transition and flush are measured against: the
\* session.updated of a voice session received on the socket the hook refers
\* to, or the server SDP set on the peer connection of that socket
ReadySignal ==
  \/ \E s \in SocketIds : s = wsRef /\ SessionUpdatedVoice(s)
  \/ \E p \in PcIds, video \in BOOLEAN, audio \in BOOLEAN :
       /\ p = pcRef
       /\ pc[p].sock = wsRef
       /\ SetRemoteDescriptionResolved(p, video, audio)

\* C4: isReady turns true, and the pre-ready queue is emptied, only in a step
\* that is the ready signal of the current connection (voice: session.updated
\* without ICE servers on the current socket; avatar: the server SDP set as
\* the remote description of the current connection's peer connection).
C4_ReadyOnlyOnAcceptance ==
  [][ ( \/ ~isReady /\ isReady'
        \/ eventQueueRef # << >> /\ eventQueueRef' = << >> ) => ReadySignal ]_vars

\* connect() has been called at most once
OneConnect == \A s \in SocketIds : s > 1 => ws[s].readyState = "NONE"

\* C5: while connect() has been called at most once, isReady = true implies
\* connectionState = 'connected'.
C5_ReadyImpliesConnected ==
  (OneConnect /\ isReady) => connectionState = "connected"

\* C6: a response.audio.delta whose response_id differs from the id tracked
\* when it is handled changes neither the playback queue nor the cursor, and
\* every source added to the queue carries the id tracked at that moment.
C6_ChunkOfOtherResponseDropped ==
  [][ /\ \A s \in SocketIds, rid \in RespIds, delta \in Deltas :
           (rid # currentResponseIdRef /\ AudioDelta(s, rid, delta)) =>
             UNCHANGED << audioQueueRef, nextPlayTimeRef >>
      /\ Len(audioQueueRef') > Len(audioQueueRef) =>
           audioQueueRef'[Len(audioQueueRef')].rid = currentResponseIdRef ]_vars

\* C6 witness: a chunk of response 1 is scheduled, response 2 has been created
\* since, so a further chunk of response 1 is now one of an older response.
C6_OlderResponseStillQueued ==
  /\ currentResponseIdRef = 2
  /\ audioQueueRef # << >>
  /\ audioQueueRef[1].rid = 1

\* C7: from a barge-in until the next response.created, the playback queue
\* stays empty: no chunk of the interrupted response is scheduled.
C7_SilentAfterBargeIn == interrupted # 0 => audioQueueRef = << >>

\* C8: while an avatar video stream is set, no response.audio.delta reaches
\* the playback scheduler: the step changes no playback state.
C8_NoLocalPlaybackWithVideo ==
  [][ \A s \in SocketIds, rid \in RespIds, delta \in Deltas :
        (videoStream # 0 /\ AudioDelta(s, rid, delta)) =>
          UNCHANGED << audioQueueRef, nextPlayTimeRef, audioContextRef >> ]_vars

\* what disconnect() leaves behind
Disconnected ==
  /\ connectionState = "disconnected"
  /\ ~isReady
  /\ videoStream = 0
  /\ audioStream = "null"
  /\ wsRef = 0
  /\ pcRef = 0
  /\ audioContextRef = "null"
  /\ audioQueueRef = << >>
  /\ nextPlayTimeRef = 0

\* the state of the hook, without the history variables
hookVars == << reactVars, closureVars, wsRef, pcRef, playbackVars, eventQueueRef,
               ws, pc >>

\* C9: from any state disconnect() ends in the disconnected state with every
\* reference cleared, and called in that state again it changes nothing.
C9_DisconnectIdempotent ==
  [][ Disconnect => /\ Disconnected'
                    /\ Disconnected => UNCHANGED hookVars ]_vars

\* C9 witness: disconnect() has torn down a connection that had a socket and
\* a peer connection.
C9_TornDown ==
  /\ Disconnected
  /\ \E s \in SocketIds : ws[s].readyState = "CLOSING"
  /\ \E p \in PcIds : pc[p].state = "closed"

\* a handler that was suspended on peer connection p when disconnect() ran
\* resumes
Resumes(p) ==
  \/ CreateOfferResolved(p)
  \/ SetLocalDescriptionResolved(p)
  \/ IceGatheringComplete(p)
  \/ \E video \in BOOLEAN, audio \in BOOLEAN :
       SetRemoteDescriptionResolved(p, video, audio)
  \/ SetRemoteDescriptionRejected(p)

\* C10: a handler that was at an await when disconnect() ran changes neither
\* isReady nor the pre-ready queue when it resumes, writes nothing to a
\* socket and raises no unhandled error.
C10_DisconnectCancelsHandlers ==
  [][ \A p \in suspended :
        Resumes(p) => /\ UNCHANGED << isReady, eventQueueRef, unhandled >>
                      /\ \A s \in SocketIds : ws'[s].sent = ws[s].sent ]_vars

\* C11: at any time at most one control-channel socket is connecting or open
\* and at most one peer connection is un-closed, and each of them is the one
\* the hook refers to.
C11_AtMostOneConnection ==
  /\ LiveSockets \subseteq {wsRef}
  /\ LivePcs \subseteq {pcRef}

\* C12: in runs where no live socket was ever replaced, every change of
\* connectionState is a transition of the state machine:
\* 'connecting' by connect(), 'connected' from 'connecting' by the opening of
\* the socket, 'disconnected' from 'connecting' or 'connected' or by
\* disconnect(); a terminal state is left only by connect().
C12_StateMachine ==
  [][ (~replaced' /\ connectionState' # connectionState) =>
        /\ connectionState' = "connecting" => Connect
        /\ connectionState' = "connected" =>
             connectionState = "connecting" /\ \E s \in SocketIds : WsOpen(s)
        /\ connectionState' \in {"disconnected", "error"} =>
             connectionState \in {"connecting", "connected"} \/ Disconnect
        /\ connectionState \in {"disconnected", "error"} => Connect \/ Disconnect
    ]_vars

\* C13: the late close or error of a socket that disconnect() closed changes
\* neither connectionState nor isReady nor error while a newer socket is
\* connecting or open.
C13_SupersededSocketIsSilent ==
  [][ \A s \in SocketIds :
        ( /\ ws[s].readyState = "CLOSING"
          /\ wsRef \in LiveSockets
          /\ WsClose(s) \/ WsFail(s) )
        => UNCHANGED << connectionState, isReady, error >> ]_vars

\* C14: connect() in direct agent mode without agentAccessToken creates no
\* WebSocket, leaves connectionState = 'error' with the error message, and
\* its promise is rejected.
C14_AgentModeFailsFast ==
  [][ ConnectAgentNoToken =>
        /\ ws' = ws /\ wsRef' = wsRef
        /\ connectionState' = "error"
        /\ error' = "agentAccessToken is required for Agent Service mode."
        /\ connectSettled' = "rejected" ]_vars

\* C15: an inbound error event sets error to the service's message, or to
\* 'Unknown API error' when there is none, and changes nothing else: no socket
\* is closed, and connectionState, isReady, the pre-ready queue, the tracked
\* response id and the playback state stay as they are.
C15_ErrorEventOnlySetsError ==
  [][ \A s \in SocketIds, msg \in ErrorMessages :
        ErrorEvent(s, msg) =>
          /\ error' = IF msg \in {"absent", ""} THEN "Unknown API error" ELSE msg
          /\ UNCHANGED << connectionState, isReady, videoStream, audioStream,
                          wsRef, pcRef, ws, pc, eventQueueRef, playbackVars >>
    ]_vars

\* C15 witness: the generic message is shown while the session is still
\* connected and ready, with a frame queued and a buffer scheduled.
C15_ErrorShownSessionIntact ==
  /\ error = "Unknown API error"
  /\ connectionState = "connected"
  /\ isReady
  /\ wsRef \in LiveSockets
  /\ eventQueueRef # << >>
  /\ audioQueueRef # << >>

\* the sockets created so far
Created == {s \in SocketIds : ws[s].readyState # "NONE"}

\* C16: with autoConnect the one socket made on mount stays the only one as
\* long as the caller does not call connect(): no close or error of the
\* transport and no re-render makes a new WebSocket.
C16_NoConnectWithoutRequest == [][ Created' = Created ]_vars

\* C17: whenever stopAudioPlayback runs (on barge-in), with any queue, it
\* leaves the playback queue empty and the cursor 0; run with an empty queue
\* and a reset cursor (as after a first call) it changes nothing of the hook.
C17_StopAllIdempotent ==
  [][ \A s \in SocketIds :
        SpeechStarted(s) =>
          /\ audioQueueRef' = << >>
          /\ nextPlayTimeRef' = 0
          /\ (audioQueueRef = << >> /\ nextPlayTimeRef = 0) => UNCHANGED hookVars
    ]_vars

\* C17 witness: a chunk of the response was scheduled, the barge-in came, and
\* queue and cursor are reset while the audio context is still open.
C17_StoppedAfterChunk ==
  /\ interrupted # 0
  /\ responseStartTimeRef >= 0
  /\ audioContextRef = "open"
  /\ audioQueueRef = << >>
  /\ nextPlayTimeRef = 0

\* C18: a chunk the scheduler accepts is appended behind the earlier ones,
\* starts at max(clock, cursor) (clock 0 and cursor 0 in a new audio context)
\* and moves the cursor to start + duration; the cursor decreases only in a
\* reset (stopAudioPlayback, response.audio.done, disconnect, new context).
C18_ScheduleAtMaxOfClockAndCursor ==
  [][ /\ Len(audioQueueRef') > Len(audioQueueRef) =>
           LET e == audioQueueRef'[Len(audioQueueRef')]
           IN /\ audioQueueRef' = Append(audioQueueRef, e)
              /\ e.start = IF audioContextRef = "null" THEN 0
                           ELSE IF now >= nextPlayTimeRef THEN now
                           ELSE nextPlayTimeRef
              /\ e.dur > 0
              /\ nextPlayTimeRef' = e.start + e.dur
      /\ nextPlayTimeRef' < nextPlayTimeRef =>
           \/ \E s \in SocketIds : SpeechStarted(s)
           \/ \E s \in SocketIds, rid \in RespIds : AudioDone(s, rid)
           \/ Disconnect
           \/ audioContextRef = "null" ]_vars

\* C18 witness: with the clock standing at t0 > 0 and a reset cursor two
\* chunks were scheduled: the first at t0, the second at t0 + d1, and the
\* cursor is at t0 + d1 + d2.
C18_TwoChunksBackToBack ==
  /\ Len(audioQueueRef) = 2
  /\ audioQueueRef[1].start = now
  /\ now > 0
  /\ audioQueueRef[2].start = audioQueueRef[1].start + audioQueueRef[1].dur
  /\ nextPlayTimeRef = audioQueueRef[2].start + audioQueueRef[2].dur

\* C19: getAudioPlaybackTime returns null while no audio context exists or no
\* chunk has been scheduled since the last response.created, and afterwards
\* max(0, clock - start of the first chunk scheduled since then) in
\* milliseconds.  Stated for runs in which no connection was replaced while
\* it was live.
C19_ElapsedSinceFirstScheduledChunk ==
  ~replaced =>
  GetAudioPlaybackTime =
    IF audioContextRef = "null" \/ turnStart = -1
      THEN -1
      ELSE IF now >= turnStart THEN (now - turnStart) * 1000 ELSE 0

\* C20: when startCapture fails at any step, its promise rejects and nothing
\* stays allocated: the tracks of the stream it acquired are stopped, the
\* audio context it created is closed, the stream, context, source and node
\* references are null and isCapturing is false.  Stated for a failed
\* invocation that is the only one made so far.
C20_FailedStartLeavesNothing ==
  \A c \in CallIds :
    (calls[c] = "rejected" /\ \A d \in CallIds \ {c} : calls[d] = "none") =>
      /\ tracks[c] # "live"
      /\ micContexts[c] \in {"none", "closed"}
      /\ streamRef = 0
      /\ micAudioContextRef = 0
      /\ audioWorkletNodeRef = 0
      /\ sourceRef = 0
      /\ isCapturing = FALSE

\* C21: after stopCapture returns, whatever calls preceded it, no track this
\* hook acquired is live, no capture context is open, the node and stream
\* references are null and isCapturing is false; a second stopCapture
\* changes nothing.
C21_StopCaptureReleasesAll ==
  [][ StopMic =>
        /\ \A c \in CallIds : tracks'[c] # "live"
        /\ \A c \in CallIds : micContexts'[c] \in {"none", "closed"}
        /\ audioWorkletNodeRef' = 0
        /\ sourceRef' = 0
        /\ streamRef' = 0
        /\ isCapturing' = FALSE ]_vars

\* C22: once stopCapture has run (disconnect(), unmount), a startCapture
\* invocation that was still awaiting at that moment leaves no live track
\* and no open context, then or later.  Stated for an invocation that is the
\* only one made and that has not failed.
C22_TeardownCoversPendingStart ==
  \A c \in orphaned :
    (calls[c] # "rejected" /\ \A d \in CallIds \ {c} : calls[d] = "none") =>
      /\ tracks[c] # "live"
      /\ micContexts[c] \in {"none", "closed"}

\* the wire name of each config field
WireKey ==
  [instructions |-> "instructions", modalities |-> "modalities",
   temperature |-> "temperature",
   maxResponseOutputTokens |-> "max_response_output_tokens",
   inputAudioFormat |-> "input_audio_format",
   outputAudioFormat |-> "output_audio_format",
   inputAudioSamplingRate |-> "input_audio_sampling_rate",
   inputAudioEchoCancellation |-> "input_audio_echo_cancellation",
   inputAudioNoiseReduction |-> "input_audio_noise_reduction",
   inputAudioTranscription |-> "input_audio_transcription",
   voice |-> "voice", turnDetection |-> "turn_detection", tools |-> "tools",
   toolChoice |-> "tool_choice",
   outputAudioTimestampTypes |-> "output_audio_timestamp_types",
   animation |-> "animation", avatar |-> "avatar"]

\* C23: in the descriptor buildSessionConfig returns, every field the user
\* set to null is present with value null, and every field the user left
\* undefined carries the value the defaults alone produce.
C23_NullKeptUndefinedDefaulted ==
  (builder = "session" /\ userConfig # Undefined) =>
    \A k \in ConfigKeys :
      /\ userConfig[2][k] = Null => built[2][WireKey[k]] = Null
      /\ userConfig[2][k] = Undefined =>
           built[2][WireKey[k]] = buildSessionConfig(Undefined)[2][WireKey[k]]

\* r is the merge of the user's properties u over the defaults d: an
\* undefined property inherits, null stays null, two plain objects merge
\* property by property, anything else (arrays included) is the user's value
RECURSIVE MergesOver(_, _, _)
MergesOver(r, u, d) ==
  /\ DOMAIN r = DOMAIN d \cup DOMAIN u
  /\ \A k \in DOMAIN r :
       LET dv == IF k \in DOMAIN d THEN d[k] ELSE Undefined
           uv == IF k \in DOMAIN u THEN u[k] ELSE Undefined
       IN CASE uv = Undefined -> r[k] = dv
            [] uv = Null -> r[k] = Null
            [] uv[1] = "array" -> r[k] = uv
            [] uv[1] = "object" /\ dv[1] = "object" ->
                 r[k][1] = "object" /\ MergesOver(r[k][2], uv[2], dv[2])
            [] OTHER -> r[k] = uv

\* C24: the merged configuration inside buildSessionConfig is the
\* field-by-field merge of the user configuration over the defaults: nested
\* objects are merged recursively, a user array replaces the default array,
\* otherwise the user's defined value wins.
C24_MergeIsRecursiveFieldByField ==
  (builder = "session" /\ userConfig # Undefined) =>
    /\ merged[1] = "object"
    /\ MergesOver(merged[2], userConfig[2], DEFAULT_SESSION_CONFIG)

\* C24 witness: a user turnDetection giving only threshold 0.7 and a user
\* modalities list were merged: the threshold is the user's, silenceDurationMs
\* is the default 500, the modalities are exactly the user's list.
C24_ThresholdOverDefaults ==
  /\ builder = "session"
  /\ Get(Get(userConfig, "turnDetection"), "threshold") = Num("0.7")
  /\ Get(Get(userConfig, "turnDetection"), "silenceDurationMs") = Undefined
  /\ Get(userConfig, "modalities") = Arr(<< "audio" >>)
  /\ Get(Get(merged, "turnDetection"), "threshold") = Num("0.7")
  /\ Get(Get(merged, "turnDetection"), "silenceDurationMs") = Num("500")
  /\ Get(merged, "modalities") = Arr(<< "audio" >>)

\* C25: on the wire a bare voice name becomes {name} only; for a structured
\* voice the rate is a string (a numeric rate appears as its decimal text),
\* and type and temperature pass through.
C25_VoiceRateIsString ==
  (builder = "session" /\ Truthy(Get(userConfig, "voice"))) =>
    LET voice == Get(userConfig, "voice")
        wire  == Get(built, "voice")
    IN /\ voice[1] = "string" => wire = Obj([NoVoice EXCEPT !.name = voice])
       /\ IsObject(voice) =>
            /\ Get(wire, "name") = Get(voice, "name")
            /\ Get(wire, "type") = Get(voice, "type")
            /\ Get(wire, "temperature") = Get(voice, "temperature")
            /\ Get(wire, "rate")[1] \in {"string", "undefined"}
            /\ Get(voice, "rate")[1] = "number" =>
                 Get(wire, "rate") = Str(Get(voice, "rate")[2])

\* the wire fields that describe the model's behaviour
BehaviourFields ==
  { "instructions", "temperature", "max_response_output_tokens", "tools",
    "tool_choice" }

\* C26: the descriptor buildAgentSessionConfig returns never carries
\* instructions, temperature, max_response_output_tokens, tools or
\* tool_choice, whatever the user configuration supplies.
C26_AgentBuilderOmitsBehaviour ==
  builder = "agent" => \A f \in BehaviourFields : built[2][f] = Undefined

\* C26 witness: the agent builder was applied to a configuration that
\* supplies instructions, a temperature and tools.
C26_AgentBuiltFromFullConfig ==
  /\ builder = "agent"
  /\ Truthy(Get(userConfig, "instructions"))
  /\ Get(userConfig, "temperature") = Num("0.5")
  /\ Truthy(Get(userConfig, "tools"))
  /\ Get(built, "input_audio_format") = Str("pcm16")

\* C27: the descriptor buildAgentSessionConfig returns carries the user's
\* voice (a bare name X as {name: X}) and the user's avatar character and
\* style.
C27_AgentBuilderKeepsVoiceAndAvatar ==
  builder = "agent" =>
    LET voice  == Get(userConfig, "voice")
        avatar == Get(userConfig, "avatar")
    IN /\ voice[1] = "string" =>
            Get(built, "voice") = Obj([NoVoice EXCEPT !.name = voice])
       /\ Truthy(avatar) =>
            /\ Get(Get(built, "avatar"), "character") = Get(avatar, "character")
            /\ Get(Get(built, "avatar"), "style") = Get(avatar, "style")

\* C28: validateConfig throws exactly when the mode is Agent Service and the
\* configuration's instructions are a non-empty string; in every other case
\* it returns normally.
C28_ThrowsOnlyForAgentInstructions ==
  validated # "none" =>
    LET instructions == Get(userConfig, "instructions")
    IN validated = "throws" <=>
         /\ isAgentMode
         /\ instructions[1] = "string"
         /\ instructions # Str("")

\* C28 witness: validateConfig threw for instructions in agent mode.
C28_AgentInstructionsRejected ==
  /\ validated = "throws"
  /\ isAgentMode
  /\ Get(userConfig, "instructions") = Str("You are a helpful assistant")

\* C29: once response.audio.done has arrived for the current response, and
\* until the next response.created, no chunk carrying the finished
\* response's id is accepted by the playback scheduler.
C29_FinishedResponseNotScheduled ==
  [][ (finished # 0 /\ finished' = finished
         /\ Len(audioQueueRef') > Len(audioQueueRef)) =>
        audioQueueRef'[Len(audioQueueRef')].rid # finished ]_vars

\* C30: the playback queue holds only buffers that are scheduled and not yet
\* finished: when a chunk is added, no buffer whose playback ended before the
\* current clock tick is still in the queue.
C30_QueueHoldsOnlyPendingBuffers ==
  [][ Len(audioQueueRef') > Len(audioQueueRef) =>
        \A i \in 1..Len(audioQueueRef) :
          audioQueueRef'[i].start + audioQueueRef'[i].dur >= now' ]_vars

\* C31: playback is sequential also across turns: of two scheduled buffers
\* that belong to different responses and were not halted, the one scheduled
\* later starts at or after the end of the earlier one.  Stated for the
\* states in which the current response has not finished.
C31_NoOverlapAcrossTurns ==
  finished = 0 =>
  \A i, j \in 1..Len(audioQueueRef) :
    (i < j /\ audioQueueRef[i].rid # audioQueueRef[j].rid) =>
      audioQueueRef[j].start >= audioQueueRef[i].start + audioQueueRef[i].dur

\* the sockets whose log holds the session.avatar.connect of peer connection p
ConnectsOf(p) ==
  {s \in SocketIds : \E i \in 1..Len(ws[s].sent) : ws[s].sent[i] = AvatarConnect(p)}

\* C32: a step that writes a session.avatar.connect writes exactly one, for a
\* peer connection that an accepted session.updated with ICE servers created,
\* whose handler is past setLocalDescription (gathering complete already) or
\* in the wait for ICE gathering, which that step ends, and for which no
\* session.avatar.connect was written before; a session.updated without ICE
\* servers therefore writes none.
C32_AvatarConnectOnce ==
  [][\A s \in SocketIds :
       NumConnects(ws'[s].sent) # NumConnects(ws[s].sent) =>
         \E p \in PcIds :
           /\ pc[p].state = "open"
           /\ pc[p].nego \in {"setLocalDescription", "iceGathering"}
           /\ pc'[p].nego = "done"
           /\ ConnectsOf(p) = {}
           /\ ws'[s].sent = Append(ws[s].sent, AvatarConnect(p))
           /\ \A t \in SocketIds \ {s} : ws'[t].sent = ws[t].sent]_vars

\* a session.avatar.connect has been written for a peer connection whose
\* negotiation went through the wait
C32_Witness ==
  \E p \in PcIds : ConnectsOf(p) # {} /\ pc[p].nego = "done"

\* C33: every inbound frame is passed to onEvent once (no handler step leaves
\* a frame unobserved), and a step that handles a frame of a type without a
\* case leaves connectionState, isReady, error, the pre-ready queue, the
\* playback cursor and queue and the tracked response id as they were, writes
\* to no socket and rejects no handler.
C33_ObservedOnceAndIgnored ==
  [][/\ unobserved' = 0
     /\ ignored' # ignored =>
          /\ UNCHANGED << connectionState, isReady, error, eventQueueRef,
                          nextPlayTimeRef, audioQueueRef, currentResponseIdRef >>
          /\ \A s \in SocketIds : ws'[s].sent = ws[s].sent
          /\ unhandled' = unhandled]_vars

\* frames without a case arrived in a ready session with a tracked response
C33_Witness ==
  ignored = MaxIgnored /\ isReady /\ currentResponseIdRef # 0

\* C34: the descriptor of updateSession(partial) is the field-by-field merge
\* of the partial over the field-by-field merge of the user config over the
\* defaults: a partial that sets one sub-field of a nested setting keeps the
\* user's values of the other sub-fields.  Stated for a user config that
\* sets turn detection to an object.
C34_UpdateMergesFieldByField ==
  (builder = "update" /\ IsObject(Get(userConfig, "turnDetection"))) =>
    built = convertToSessionUpdate(deepMerge(MergedConfig(userConfig), partialSession[2]))

\* C40: in agent mode no session.update the hook builds, the one answering
\* session.created or one of updateSession, carries instructions,
\* temperature, max_response_output_tokens, tools or tool_choice.
C40_AgentUpdatesAreReduced ==
  (isAgentMode /\ builder \in {"created", "update"}) =>
    \A f \in BehaviourFields : built[2][f] = Undefined

\* C35: every frame a worklet node posts after startCapture resolved is
\* passed to onAudioData: a step that posts a frame delivers it.
C35_PostedFramesAreDelivered ==
  [][posted' = posted + 1 => delivered' = delivered + 1]_vars

\* C36: frames never cross connections: outside a handshake window the
\* pre-ready queue holds no frame that was submitted in one, so a frame
\* queued for a session is gone when that session has ended.
C36_QueueEndsWithSession ==
  ~Handshaking =>
    \A i \in 1..Len(eventQueueRef) : eventQueueRef[i].n \notin preReady

\* C39: in voice-only mode, while the current socket is open and the hook is
\* connected, audioStream is the stream of a destination node of the current
\* audio context (the output path is rebuilt for every connection).  Stated
\* for runs in which no connection was replaced while it was live.
C39_OutputPathRebuilt ==
  ( /\ ~replaced
    /\ ~avatarConfigured
    /\ connectionState = "connected"
    /\ wsRef # 0
    /\ ws[wsRef].readyState = "OPEN" ) =>
      /\ audioStream = "dest"
      /\ audioStreamDestinationRef = "live"

\* C37: the microphone captures only while the session is ready and
\* connected.  Stated for runs in which no connection was replaced while it
\* was live and no startCapture invocation was overtaken by a stopCapture.
C37_MicOnlyWhileReady ==
  (~replaced /\ orphaned = {}) =>
    (isCapturing => (isReady /\ connectionState = "connected"))

\* C38: a stopMic() of the caller in a ready session is honoured: while that
\* session is still the current one, ready and its socket open, no
\* startCapture invocation begins (the caller never calls startMic in these
\* runs, so only the auto-start effect could begin one).
C38_StopMicIsHonoured ==
  [][ ( /\ ~replaced
        /\ stoppedOn # 0
        /\ stoppedOn = wsRef
        /\ ws[wsRef].readyState = "OPEN"
        /\ isReady )
      => \A c \in CallIds : calls[c] = "none" => calls'[c] = "none" ]_vars

====
